---- MODULE Spec2Model ----
(***************************************************************************)
(* BoardSar backend integration contract.                                  *)
(*                                                                         *)
(* The repository's source is the API client adapter and the scenarios of  *)
(* backend/TestIntegrationBackend.py.  The adapter operations are modelled *)
(* from that file: each builds one HTTP request (method, URL, headers,     *)
(* JSON body) and turns the HTTP response into a result dictionary.  The   *)
(* backend that answers the requests is not part of the source; its        *)
(* handlers are modelled from the contract table of the specification      *)
(* (section 4.2) and are grouped under "Backend" below.                    *)
(*                                                                         *)
(* Python values: an optional value is a set with at most one element      *)
(* (None is {}), a dictionary is a record whose absent keys are {}.        *)
(***************************************************************************)
EXTENDS Integers, Sequences, FiniteSets, TLC

VARIABLES
    users,          \* backend: email -> {} or {[id, password]}
    boards,         \* backend: board id -> {} or {[owner, scale, position, shapes]}
    nextBoardId,    \* backend: next board id to assign (ids are never reused)
    issued,         \* tokens handed out by successful logins
    registered_201, \* email -> passwords of its register calls that returned 201
    created_201,    \* board id -> {} or {email whose create call returned 201}
    deleted_200,    \* board ids whose delete call returned 200
    last,           \* the last adapter call: operation, arguments, result
    phase,          \* suite: where the test run stands
    mongo_client,   \* suite: cls.mongo_client, {} for None
    db,             \* suite: cls.db, {} for None
    connection,     \* suite: the MongoDB connection: "none", "open", "closed"
    test_users,     \* suite: cls.test_users
    test_boards,    \* suite: cls.test_boards
    clock,          \* suite: how many addresses generate_test_email has given
    budget,         \* suite: how many more scenarios may start
    outcome,        \* suite: scenario that ended -> "pass", "fail", "error"
    cur,            \* suite: the running scenario, "" between scenarios
    pc,             \* suite: the step the running scenario is at
    loc,            \* suite: the running scenario's local variables
    wire,           \* suite: the HTTP requests of the last adapter invocation
    cleanup         \* suite: what cleanup_test_data passed to delete_many

backendVars == <<users, boards, nextBoardId, issued, registered_201, created_201,
                 deleted_200, last>>

suiteVars == <<phase, mongo_client, db, connection, test_users, test_boards,
               clock, budget, outcome, cur, pc, loc, wire, cleanup>>

vars == <<users, boards, nextBoardId, issued, registered_201, created_201,
          deleted_200, last, phase, mongo_client, db, connection, test_users,
          test_boards, clock, budget, outcome, cur, pc, loc, wire, cleanup>>

(***************************************************************************)
(* Bounds                                                                  *)
(***************************************************************************)
MaxBoards == 2

(***************************************************************************)
(* Fixtures and literals of the suite                                      *)
(***************************************************************************)
None == {}

TEST_EMAIL_DOMAIN == "test.example.com"

\* generate_test_email: distinct addresses of the fixed test domain
generate_test_email == { "testuser_1@" \o TEST_EMAIL_DOMAIN,
                         "testuser_2@" \o TEST_EMAIL_DOMAIN }

InvalidEmail == "invalid-email"

DefaultPassword == "testpassword123"
WrongPassword == "wrongpassword"
WeakPassword == "123"

EmailArgs == generate_test_email \cup {InvalidEmail}
RegisterPasswords == {DefaultPassword, WeakPassword}
LoginPasswords == {DefaultPassword, WrongPassword}

\* tokens the scenarios pass that no login returned
EmptyToken == ""
InvalidTokens == {EmptyToken, "invalid-token"}

NonexistentBoardId == 0
BoardIds == 1..MaxBoards
BoardIdArgs == BoardIds \cup {NonexistentBoardId}

DefaultShapes == << [id |-> "test-shape-1", type |-> "rectangle", x |-> 100,
                     y |-> 100, width |-> 200, height |-> 150,
                     fill |-> "#ff0000", stroke |-> "#000000",
                     strokeWidth |-> 2] >>

generate_test_board_data ==
    [scale |-> 1, position |-> [x |-> 0, y |-> 0], shapes |-> DefaultShapes]

\* the update of test_28: scale 2.0, position {x: 50, y: 50}
UpdatedBoardData ==
    [generate_test_board_data EXCEPT !.scale = 2, !.position = [x |-> 50, y |-> 50]]

BoardDataArgs == {generate_test_board_data, UpdatedBoardData}

(***************************************************************************)
(* HTTP messages                                                           *)
(***************************************************************************)
\* a JSON object body; a key that is absent is {}
EmptyBody ==
    [is_json |-> TRUE, status |-> None, message |-> None, error |-> None,
     token |-> None, user |-> None, id |-> None, email |-> None,
     board |-> None, boards |-> None, boardId |-> None, _id |-> None]

\* a body whose content-type is not application/json: response.text
TextBody == [EmptyBody EXCEPT !.is_json = FALSE]

NoJson == [has_email |-> FALSE, email |-> None, has_password |-> FALSE,
           password |-> None, has_board |-> FALSE, board |-> None]

JsonContentType == "application/json"
FormContentType == "application/x-www-form-urlencoded"

\* cls.headers
headers == [ContentType |-> {JsonContentType}, Authorization |-> None]

Request(method, path, id, hdrs, json) ==
    [method |-> method, path |-> path, id |-> id, headers |-> hdrs, json |-> json]

(***************************************************************************)
(* Backend: the handlers behind the endpoints, from the contract table     *)
(***************************************************************************)
\* the opaque bearer string a login hands out for an identity
SignedToken(e) == "signed.jwt." \o e

\* the identity a request authenticates as: {} unless the Authorization
\* header is "Bearer " followed by a token the backend signed
Authenticate(hdrs) ==
    { e \in DOMAIN users :
        hdrs.Authorization = {"Bearer " \o SignedToken(e)} }

WellFormedEmail(e) == e # InvalidEmail
AcceptablePassword(p) == p # WeakPassword

ErrorBody(text) == [EmptyBody EXCEPT !.error = {text}]

AlreadyRegistered == "already registered"

\* headers: the names of the response headers the scenarios look at
Response(code, body) == [status_code |-> code, body |-> body, headers |-> {}]

\* what a handler leaves behind: the response and the stored collections
Outcome(resp, us, bs, nid) ==
    [resp |-> resp, users |-> us, boards |-> bs, nextBoardId |-> nid]

Unchanged(resp) == Outcome(resp, users, boards, nextBoardId)

\* a stored board as it appears in a response
BoardJson(id) ==
    LET b == CHOOSE r \in boards[id] : TRUE
    IN  [is_dict |-> TRUE, _id |-> {id}, scale |-> {b.scale},
         position |-> {b.position}, shapes |-> {b.shapes}]

OwnedBy(e) == { id \in BoardIds : boards[id] # {} /\
                    (CHOOSE r \in boards[id] : TRUE).owner = e }

RECURSIVE IdsAscending(_)
IdsAscending(S) ==
    IF S = {} THEN << >>
    ELSE LET m == CHOOSE x \in S : \A y \in S : x <= y
         IN  <<m>> \o IdsAscending(S \ {m})

BoardList(e) ==
    LET ids == IdsAscending(OwnedBy(e))
    IN  [i \in 1..Len(ids) |-> BoardJson(ids[i])]

\* GET /health
Health == Unchanged(Response(200, [EmptyBody EXCEPT !.status = {"ok"}]))

\* POST /auth/register.  The contract gives 409 for a duplicate email and
\* 400 for an invalid email or a weak password and no precedence between
\* them: dup_first is the backend's choice when both apply.
Register(req, dup_first) ==
    LET j == req.json
        wellFormed == /\ j.has_email /\ j.has_password
                      /\ \A e \in j.email : WellFormedEmail(e)
                      /\ \A p \in j.password : AcceptablePassword(p)
        duplicate == \E e \in j.email : e \in DOMAIN users /\ users[e] # {}
        conflict == Unchanged(Response(409,
                        ErrorBody("Email " \o AlreadyRegistered)))
        invalid == Unchanged(Response(400, ErrorBody("Invalid email or password")))
    IN  IF duplicate /\ ~wellFormed
          THEN (IF dup_first THEN conflict ELSE invalid)
        ELSE IF ~wellFormed THEN invalid
        ELSE IF duplicate THEN conflict
        ELSE LET e == CHOOSE x \in j.email : TRUE
                 p == CHOOSE x \in j.password : TRUE
                 uid == 1 + Cardinality({ x \in DOMAIN users : users[x] # {} })
             IN  Outcome(Response(201, [EmptyBody EXCEPT
                                          !.message = {"User created successfully"}]),
                         [users EXCEPT ![e] = {[id |-> uid, password |-> p]}],
                         boards, nextBoardId)

\* POST /auth/login
Login(req) ==
    LET j == req.json
        match == { e \in j.email : /\ e \in DOMAIN users /\ users[e] # {}
                                   /\ j.has_password
                                   /\ j.password =
                                        {(CHOOSE u \in users[e] : TRUE).password} }
    IN  IF match = {}
          THEN Unchanged(Response(401, ErrorBody("Invalid credentials")))
        ELSE LET e == CHOOSE x \in match : TRUE
                 u == CHOOSE x \in users[e] : TRUE
             IN  Unchanged(Response(200, [EmptyBody EXCEPT
                     !.token = {SignedToken(e)},
                     !.user = {[id |-> u.id, email |-> e]}]))

Unauthorized == Unchanged(Response(401, ErrorBody("Unauthorized")))
NotFound == Unchanged(Response(404, ErrorBody("Board not found")))
BadRequest == Unchanged(Response(400, ErrorBody("Board data is required")))

\* GET /me
Me(req) ==
    LET who == Authenticate(req.headers)
    IN  IF who = {} THEN Unauthorized
        ELSE LET e == CHOOSE x \in who : TRUE
                 u == CHOOSE x \in users[e] : TRUE
             IN  Unchanged(Response(200, [EmptyBody EXCEPT
                     !.id = {u.id}, !.email = {e}]))

\* the 201 body of POST /api/boards: the contract says {message, board} and
\* leaves open where the assigned id sits (nested, flat, or not echoed)
CreateShapes == {"nested_id", "nested_flat_id", "nested_no_id", "flat_id"}

CreatedBody(id, data, shape) ==
    LET echoed == [is_dict |-> TRUE, _id |-> None, scale |-> {data.scale},
                   position |-> {data.position}, shapes |-> {data.shapes}]
        msg == [EmptyBody EXCEPT !.message = {"Board created successfully"}]
    IN  CASE shape = "nested_id" ->
               [msg EXCEPT !.board = {[echoed EXCEPT !._id = {id}]}]
          [] shape = "nested_flat_id" ->
               [msg EXCEPT !.board = {echoed}, !._id = {id}]
          [] shape = "nested_no_id" ->
               [msg EXCEPT !.board = {echoed}]
          [] OTHER ->
               [EmptyBody EXCEPT !._id = {id}]

\* POST /api/boards
CreateBoard(req, shape) ==
    LET who == Authenticate(req.headers)
    IN  IF who = {} THEN Unauthorized
        ELSE IF ~req.json.has_board THEN BadRequest
        ELSE LET e == CHOOSE x \in who : TRUE
                 data == CHOOSE x \in req.json.board : TRUE
                 id == nextBoardId
             IN  Outcome(Response(201, CreatedBody(id, data, shape)),
                         users,
                         [boards EXCEPT ![id] =
                             {[owner |-> e, scale |-> data.scale,
                               position |-> data.position,
                               shapes |-> data.shapes]}],
                         nextBoardId + 1)

\* GET /api/boards
ListBoards(req) ==
    LET who == Authenticate(req.headers)
    IN  IF who = {} THEN Unauthorized
        ELSE Unchanged(Response(200, [EmptyBody EXCEPT
                 !.boards = {BoardList(CHOOSE x \in who : TRUE)}]))

\* the board a request addresses, if the caller owns it
Addressed(req) ==
    { id \in req.id : \E e \in Authenticate(req.headers) : id \in OwnedBy(e) }

\* GET /api/boards/{id}
GetBoard(req) ==
    IF Authenticate(req.headers) = {} THEN Unauthorized
    ELSE IF Addressed(req) = {} THEN NotFound
    ELSE Unchanged(Response(200, [EmptyBody EXCEPT
             !.board = {BoardJson(CHOOSE x \in Addressed(req) : TRUE)}]))

\* PUT /api/boards/{id}
UpdateBoard(req) ==
    IF Authenticate(req.headers) = {} THEN Unauthorized
    ELSE IF ~req.json.has_board THEN BadRequest
    ELSE IF Addressed(req) = {} THEN NotFound
    ELSE LET id == CHOOSE x \in Addressed(req) : TRUE
             old == CHOOSE x \in boards[id] : TRUE
             data == CHOOSE x \in req.json.board : TRUE
         IN  Outcome(Response(200, [EmptyBody EXCEPT
                                      !.message = {"Board updated successfully"}]),
                     users,
                     [boards EXCEPT ![id] =
                         {[owner |-> old.owner, scale |-> data.scale,
                           position |-> data.position, shapes |-> data.shapes]}],
                     nextBoardId)

\* DELETE /api/boards/{id}
DeleteBoard(req) ==
    IF Authenticate(req.headers) = {} THEN Unauthorized
    ELSE IF Addressed(req) = {} THEN NotFound
    ELSE LET id == CHOOSE x \in Addressed(req) : TRUE
         IN  Outcome(Response(200, [EmptyBody EXCEPT
                                      !.message = {"Board deleted successfully"},
                                      !.boardId = {id}]),
                     users, [boards EXCEPT ![id] = {}], nextBoardId)

CorsHeaders == {"Access-Control-Allow-Origin", "Access-Control-Allow-Methods"}

\* OPTIONS /api/boards: the CORS preflight
Preflight == Unchanged([Response(204, TextBody) EXCEPT !.headers = CorsHeaders])

\* the status codes the contract allows for a rejected non-JSON creation
FormRejections == {400, 415}

\* POST /api/boards with a content-type that is not JSON
CreateBoardForm(req, code) ==
    IF Authenticate(req.headers) = {} THEN Unauthorized
    ELSE Unchanged(Response(code, ErrorBody("Unsupported content type")))

\* the backend's choices the contract leaves open, for the request at hand
Choices(req) ==
    LET create == req.path = "/api/boards" /\ req.method = "POST"
        json == req.headers.ContentType = {JsonContentType}
    IN  [dup_first : IF req.path = "/auth/register" THEN BOOLEAN ELSE {TRUE},
         shape : IF create /\ json THEN CreateShapes ELSE {"nested_id"},
         form : IF create /\ ~json THEN FormRejections ELSE {400}]

\* the router
Serve(req, nd) ==
    CASE req.method = "GET" /\ req.path = "/health" -> Health
      [] req.method = "POST" /\ req.path = "/auth/register" ->
             Register(req, nd.dup_first)
      [] req.method = "POST" /\ req.path = "/auth/login" -> Login(req)
      [] req.method = "GET" /\ req.path = "/me" -> Me(req)
      [] /\ req.method = "POST" /\ req.path = "/api/boards"
         /\ req.headers.ContentType # {JsonContentType} ->
             CreateBoardForm(req, nd.form)
      [] req.method = "POST" /\ req.path = "/api/boards" ->
             CreateBoard(req, nd.shape)
      [] req.method = "OPTIONS" /\ req.path = "/api/boards" -> Preflight
      [] req.method = "GET" /\ req.path = "/api/boards" -> ListBoards(req)
      [] req.method = "GET" /\ req.path = "/api/boards/{id}" -> GetBoard(req)
      [] req.method = "PUT" /\ req.path = "/api/boards/{id}" -> UpdateBoard(req)
      [] req.method = "DELETE" /\ req.path = "/api/boards/{id}" -> DeleteBoard(req)
      [] OTHER -> Unchanged(Response(404, TextBody))

\* every outcome the backend can give a request
Outcomes(req) == { Serve(req, nd) : nd \in Choices(req) }

(***************************************************************************)
(* API client adapter (TestIntegrationBackend.py)                          *)
(***************************************************************************)
\* headers = self.headers.copy(); headers["Authorization"] = f"Bearer {token}"
BearerHeaders(token) == [headers EXCEPT !.Authorization = {"Bearer " \o token}]

\* isinstance(result["response"], dict): the JSON bodies of this API are objects
IsDict(body) == body.is_json

\* the dictionary every adapter operation returns; keys lists its keys
Result(resp) ==
    [status_code |-> resp.status_code, response |-> resp.body,
     keys |-> {"status_code", "response"},
     email |-> None, password |-> None, token |-> None, user_id |-> None,
     board_id |-> None]


\* mutant: the registration is posted to the login endpoint
register_user_request_login(email, password) ==
    Request("POST", "/auth/login", None, headers,
            [NoJson EXCEPT !.has_email = TRUE, !.email = {email},
                           !.has_password = TRUE, !.password = {password}])

register_user_request(email, password) ==
    Request("POST", "/auth/register", None, headers,
            [NoJson EXCEPT !.has_email = TRUE, !.email = {email},
                           !.has_password = TRUE, !.password = {password}])

register_user_result(resp, email, password) ==
    [Result(resp) EXCEPT !.keys = @ \cup {"email", "password"},
                         !.email = {email}, !.password = {password}]

login_user_request(email, password) ==
    Request("POST", "/auth/login", None, headers,
            [NoJson EXCEPT !.has_email = TRUE, !.email = {email},
                           !.has_password = TRUE, !.password = {password}])

\* result["response"].get("user", {}).get("id")
UserIdOf(body) == { u.id : u \in body.user }


\* mutant: the token is looked up inside the user object
login_user_result_user_token(resp) ==
    IF resp.status_code = 200 /\ IsDict(resp.body)
      THEN [Result(resp) EXCEPT !.keys = @ \cup {"token", "user_id"},
                                !.token = None,
                                !.user_id = UserIdOf(resp.body)]
      ELSE Result(resp)

login_user_result(resp) ==
    IF resp.status_code = 200 /\ IsDict(resp.body)
      THEN [Result(resp) EXCEPT !.keys = @ \cup {"token", "user_id"},
                                !.token = resp.body.token,
                                !.user_id = UserIdOf(resp.body)]
      ELSE Result(resp)


\* mutant: the profile call is sent to the health endpoint of test_01
get_profile_request_health(token) ==
    Request("GET", "/health", None, BearerHeaders(token), NoJson)

get_profile_request(token) ==
    Request("GET", "/me", None, BearerHeaders(token), NoJson)

\* board_data is {} for the omitted argument (the default fixture is sent)
create_board_request(token, board_data) ==
    LET data == IF board_data = None THEN {generate_test_board_data}
                ELSE board_data
    IN  Request("POST", "/api/boards", None, BearerHeaders(token),
                [NoJson EXCEPT !.has_board = TRUE, !.board = data])


\* mutant: only the response's own _id is read
ExtractBoardId_flat(body) == body._id

\* the board id of a 201 response: board._id when the board object has one,
\* else the response's own _id (None when there is none)
ExtractBoardId(body) ==
    IF body.board # None
      THEN LET board_data_response == CHOOSE b \in body.board : TRUE
           IN  IF board_data_response.is_dict /\ board_data_response._id # None
                 THEN board_data_response._id
                 ELSE body._id
      ELSE body._id

create_board_result(resp) ==
    IF resp.status_code = 201 /\ IsDict(resp.body)
      THEN [Result(resp) EXCEPT !.keys = @ \cup {"board_id"},
                                !.board_id = ExtractBoardId(resp.body)]
      ELSE Result(resp)


\* mutant: json=data with the fixture in place of json={}
post_boards_empty_json_request_data(token) ==
    Request("POST", "/api/boards", None, BearerHeaders(token),
            [NoJson EXCEPT !.has_board = TRUE, !.board = {generate_test_board_data}])

\* test_22: requests.post(.../api/boards, headers=headers, json={})
post_boards_empty_json_request(token) ==
    Request("POST", "/api/boards", None, BearerHeaders(token), NoJson)


\* mutant: a trailing slash sends the request to the single-board route
get_boards_request_slash(token) ==
    Request("GET", "/api/boards/{id}", None, BearerHeaders(token), NoJson)

get_boards_request(token) ==
    Request("GET", "/api/boards", None, BearerHeaders(token), NoJson)


\* mutant: the request is sent with self.headers, without the bearer token
get_board_request_no_auth(token, board_id) ==
    Request("GET", "/api/boards/{id}", {board_id}, headers, NoJson)

get_board_request(token, board_id) ==
    Request("GET", "/api/boards/{id}", {board_id}, BearerHeaders(token), NoJson)


\* mutant: the fixture is sent in place of board_data
update_board_request_fixture(token, board_id, board_data) ==
    Request("PUT", "/api/boards/{id}", {board_id}, BearerHeaders(token),
            [NoJson EXCEPT !.has_board = TRUE, !.board = {generate_test_board_data}])

\* mutant: the request is sent with self.headers, without the bearer token
update_board_request_no_auth(token, board_id, board_data) ==
    Request("PUT", "/api/boards/{id}", {board_id}, headers,
            [NoJson EXCEPT !.has_board = TRUE, !.board = {board_data}])

update_board_request(token, board_id, board_data) ==
    Request("PUT", "/api/boards/{id}", {board_id}, BearerHeaders(token),
            [NoJson EXCEPT !.has_board = TRUE, !.board = {board_data}])


\* mutant: requests.get in place of requests.delete
delete_board_request_get(token, board_id) ==
    Request("GET", "/api/boards/{id}", {board_id}, BearerHeaders(token), NoJson)

delete_board_request(token, board_id) ==
    Request("DELETE", "/api/boards/{id}", {board_id}, BearerHeaders(token), NoJson)

\* test_01: requests.get(.../health)
server_health_request ==
    Request("GET", "/health", None, [headers EXCEPT !.ContentType = None], NoJson)

\* test_43: requests.options(.../api/boards)
options_request ==
    Request("OPTIONS", "/api/boards", None, [headers EXCEPT !.ContentType = None],
            NoJson)

\* test_44: requests.post(.../api/boards, data="board=test") with a form
\* content-type
post_form_request(token) ==
    Request("POST", "/api/boards", None,
            [BearerHeaders(token) EXCEPT !.ContentType = {FormContentType}],
            NoJson)

(***************************************************************************)
(* One adapter call: the request is served and the result recorded         *)
(***************************************************************************)
NoArgs == [email |-> None, password |-> None, token |-> None,
           board_id |-> None, board_data |-> None]

\* the identity whose login returned the token
LoggedInAs(token) == { e \in DOMAIN issued : issued[e] = {token} }

\* tokens a caller can pass: the literals of the scenarios and login results
TokenArgs == InvalidTokens \cup UNION { issued[e] : e \in DOMAIN issued }

Created(out) == { id \in BoardIds : boards[id] = {} /\ out.boards[id] # {} }

Exchange(op, args, out, res) ==
    /\ out.nextBoardId # nextBoardId => nextBoardId <= MaxBoards
    /\ users' = out.users
    /\ boards' = out.boards
    /\ nextBoardId' = out.nextBoardId
    /\ issued' = IF op = "login_user" /\ res.token # None
                   THEN [e \in DOMAIN issued |->
                           IF args.email = {e} THEN res.token ELSE issued[e]]
                   ELSE issued
    /\ registered_201' =
         IF op = "register_user" /\ res.status_code = 201
           THEN [e \in DOMAIN registered_201 |->
                   IF args.email = {e} /\ Len(registered_201[e]) < 2
                     THEN registered_201[e] \o <<CHOOSE p \in args.password : TRUE>>
                     ELSE registered_201[e]]
           ELSE registered_201
    /\ created_201' =
         IF res.status_code = 201
           THEN [id \in BoardIds |->
                   IF id \in Created(out) THEN UNION { LoggedInAs(t) : t \in args.token }
                   ELSE created_201[id]]
           ELSE created_201
    /\ deleted_200' =
         IF op = "delete_board" /\ res.status_code = 200
           THEN deleted_200 \cup (args.board_id \cap BoardIds)
           ELSE deleted_200
    /\ last' = [op |-> op, args |-> args, result |-> res]

\* an adapter call made outside a suite run
Call(op, args, out, res) ==
    /\ Exchange(op, args, out, res)
    /\ UNCHANGED suiteVars

register_user ==
    \E email \in EmailArgs, password \in RegisterPasswords :
      \E out \in Outcomes(register_user_request(email, password)) :
            Call("register_user",
                 [NoArgs EXCEPT !.email = {email}, !.password = {password}],
                 out, register_user_result(out.resp, email, password))

login_user ==
    \E email \in generate_test_email, password \in LoginPasswords :
      \E out \in Outcomes(login_user_request(email, password)) :
            Call("login_user",
                 [NoArgs EXCEPT !.email = {email}, !.password = {password}],
                 out, login_user_result(out.resp))

get_profile ==
    \E token \in TokenArgs :
      \E out \in Outcomes(get_profile_request(token)) :
            Call("get_profile", [NoArgs EXCEPT !.token = {token}],
                 out, Result(out.resp))

create_board ==
    \E token \in TokenArgs, board_data \in {None, {generate_test_board_data}} :
      \E out \in Outcomes(create_board_request(token, board_data)) :
            Call("create_board",
                 [NoArgs EXCEPT !.token = {token}, !.board_data = board_data],
                 out, create_board_result(out.resp))

post_boards_empty_json ==
    \E token \in TokenArgs :
      \E out \in Outcomes(post_boards_empty_json_request(token)) :
            Call("post_boards_empty_json", [NoArgs EXCEPT !.token = {token}],
                 out, Result(out.resp))

get_boards ==
    \E token \in TokenArgs :
      \E out \in Outcomes(get_boards_request(token)) :
            Call("get_boards", [NoArgs EXCEPT !.token = {token}],
                 out, Result(out.resp))

get_board ==
    \E token \in TokenArgs, board_id \in BoardIdArgs :
      \E out \in Outcomes(get_board_request(token, board_id)) :
            Call("get_board",
                 [NoArgs EXCEPT !.token = {token}, !.board_id = {board_id}],
                 out, Result(out.resp))

update_board ==
    \E token \in TokenArgs, board_id \in BoardIdArgs,
       board_data \in BoardDataArgs :
      \E out \in Outcomes(update_board_request(token, board_id, board_data)) :
            Call("update_board",
                 [NoArgs EXCEPT !.token = {token}, !.board_id = {board_id},
                                !.board_data = {board_data}],
                 out, Result(out.resp))

delete_board ==
    \E token \in TokenArgs, board_id \in BoardIdArgs :
      \E out \in Outcomes(delete_board_request(token, board_id)) :
            Call("delete_board",
                 [NoArgs EXCEPT !.token = {token}, !.board_id = {board_id}],
                 out, Result(out.resp))

server_health ==
    \E out \in Outcomes(server_health_request) :
        Call("server_health", NoArgs, out, Result(out.resp))

(***************************************************************************)
(* The suite: scenarios as sequences of calls (test_01 .. test_44)         *)
(***************************************************************************)
\* scenarios started in one run of the suite
MaxRuns == MaxBoards


\* mutant: every call returns the same address
test_email_reused(n) == "testuser_1@" \o TEST_EMAIL_DOMAIN

\* the n-th address generate_test_email returns: the timestamp and the random
\* suffix make the addresses of one run pairwise distinct
test_email(n) == "testuser_" \o ToString(n) \o "@" \o TEST_EMAIL_DOMAIN

\* the addresses a run of the suite can generate (two per scenario at most)
SuiteEmails == { test_email(n) : n \in 1..(2 * MaxRuns) }

MalformedToken == "malformed.token.here"
SomeBoardId == -1
NoneBoardId == -2
TIMEOUT == 10

\* one call of a scenario.  email: "e1", "e2", "invalid" or ""; token:
\* "login1"/"login2" for login_result["token"], "lit" for the literal in
\* text; board_id: "board_id" for the scenario's variable, "create_result"
\* for create_result["board_id"]; contract: the status codes the contract
\* expects; asserted: whether the scenario asserts them; cond: the guard the
\* call stands under; then: what the scenario does with the result.
Step(call, email, password, token, text, board_id, data, contract, asserted, check, cond, then) ==
    [call |-> call, email |-> email, password |-> password, token |-> token,
     text |-> text, board_id |-> board_id, data |-> data,
     contract |-> contract, asserted |-> asserted, check |-> check,
     cond |-> cond, then |-> then]

Reg(email, password, contract, asserted, check) ==
    Step("register_user", email, password, "", "", "", "", contract, asserted,
         check, "always", "")

Log(email, password, contract, asserted, check, then) ==
    Step("login_user", email, password, "", "", "", "", contract, asserted,
         check, "always", then)

\* self.register_user(email); login_result = self.login_user(email)
RegisterAndLogin ==
    << Reg("e1", DefaultPassword, {201}, FALSE, ""),
       Log("e1", DefaultPassword, {200}, FALSE, "", "login1") >>

Tok(call, token, text, board_id, data, contract, check) ==
    Step(call, "", "", token, text, board_id, data, contract, TRUE, check,
         "always", "")

\* create_result = self.create_board(login_result["token"], board_data);
\* self.assertEqual(create_result["status_code"], 201)
CreateAsserted(then) ==
    Step("create_board", "", "", "login1", "", "", "fixture", {201}, TRUE, "",
         "always", then)

\* the list-boards fallback of test_25, test_28 and test_31
Fallback ==
    Step("get_boards", "", "", "login1", "", "", "", {200}, FALSE, "",
         "board_id_none", "first_listed")

Scenario(name) ==
    CASE name = "test_01_server_health" ->
           << Step("health", "", "", "", "", "", "", {200}, TRUE, "status_ok",
                   "always", "") >>
      [] name = "test_02_user_registration_valid" ->
           << Reg("e1", DefaultPassword, {201}, TRUE, "created") >>
      [] name = "test_03_user_registration_duplicate_email" ->
           << Reg("e1", DefaultPassword, {201}, TRUE, ""),
              Reg("e1", DefaultPassword, {409}, TRUE, "already") >>
      [] name = "test_04_user_registration_invalid_email" ->
           << Reg("invalid", DefaultPassword, {400}, TRUE, "error") >>
      [] name = "test_05_user_registration_weak_password" ->
           << Reg("e1", WeakPassword, {400}, TRUE, "error") >>
      [] name = "test_06_user_login_valid" ->
           << Reg("e1", DefaultPassword, {201}, TRUE, ""),
              Log("e1", DefaultPassword, {200}, TRUE, "token_user", "login1") >>
      [] name = "test_07_user_login_invalid_credentials" ->
           << Log("e1", DefaultPassword, {401}, TRUE, "error", "") >>
      [] name = "test_08_user_login_wrong_password" ->
           << Reg("e1", DefaultPassword, {201}, TRUE, ""),
              Log("e1", WrongPassword, {401}, TRUE, "error", "") >>
      [] name = "test_09_user_profile_access" ->
           RegisterAndLogin \o
           << Tok("get_profile", "login1", "", "", "", {200}, "email") >>
      [] name = "test_10_user_profile_no_token" ->
           << Tok("get_profile", "lit", EmptyToken, "", "", {401}, "error") >>
      [] name = "test_11_user_profile_invalid_token" ->
           << Tok("get_profile", "lit", "invalid-token", "", "", {401}, "error") >>
      [] name = "test_20_board_create_authenticated" ->
           RegisterAndLogin \o
           << Step("create_board", "", "", "login1", "", "", "fixture", {201},
                   TRUE, "message_board", "always", "create_result") >>
      [] name = "test_21_board_create_unauthenticated" ->
           << Tok("create_board", "lit", EmptyToken, "", "fixture", {401}, "error") >>
      [] name = "test_22_board_create_invalid_data" ->
           RegisterAndLogin \o
           << Tok("post_boards_empty_json", "login1", "", "", "", {400}, "error") >>
      [] name = "test_23_board_list_authenticated" ->
           RegisterAndLogin \o
           << CreateAsserted(""),
              Tok("get_boards", "login1", "", "", "", {200}, "boards_nonempty") >>
      [] name = "test_24_board_list_unauthenticated" ->
           << Tok("get_boards", "lit", EmptyToken, "", "", {401}, "error") >>
      [] name = "test_25_board_get_specific" ->
           RegisterAndLogin \o
           << CreateAsserted("resolve"), Fallback,
              Tok("get_board", "login1", "", "board_id", "", {200}, "scale_fixture") >>
      [] name = "test_26_board_get_nonexistent" ->
           RegisterAndLogin \o
           << Tok("get_board", "login1", "", "nonexistent", "", {404}, "error") >>
      [] name = "test_27_board_get_unauthenticated" ->
           << Tok("get_board", "lit", EmptyToken, "some", "", {401}, "error") >>
      [] name = "test_28_board_update_existing" ->
           RegisterAndLogin \o
           << CreateAsserted("resolve"), Fallback,
              Tok("update_board", "login1", "", "board_id", "updated", {200}, "message"),
              Tok("get_board", "login1", "", "board_id", "", {200}, "scale_updated") >>
      [] name = "test_29_board_update_nonexistent" ->
           RegisterAndLogin \o
           << Tok("update_board", "login1", "", "nonexistent", "fixture", {404}, "error") >>
      [] name = "test_30_board_update_unauthenticated" ->
           << Tok("update_board", "lit", EmptyToken, "some", "fixture", {401}, "error") >>
      [] name = "test_31_board_delete_existing" ->
           RegisterAndLogin \o
           << CreateAsserted("resolve"), Fallback,
              Tok("delete_board", "login1", "", "board_id", "", {200}, "message_boardId") >>
      [] name = "test_32_board_delete_nonexistent" ->
           RegisterAndLogin \o
           << Tok("delete_board", "login1", "", "nonexistent", "", {404}, "error") >>
      [] name = "test_33_board_delete_unauthenticated" ->
           << Tok("delete_board", "lit", EmptyToken, "some", "", {401}, "error") >>
      [] name = "test_40_board_access_other_user_board" ->
           RegisterAndLogin \o
           << Reg("e2", DefaultPassword, {201}, FALSE, ""),
              Log("e2", DefaultPassword, {200}, FALSE, "", "login2"),
              CreateAsserted("create_result"),
              Step("get_board", "", "", "login2", "", "create_result", "", {404},
                   TRUE, "error", "token_in_login2", "") >>
      [] name = "test_41_board_list_other_user_boards" ->
           RegisterAndLogin \o
           << Reg("e2", DefaultPassword, {201}, FALSE, ""),
              Log("e2", DefaultPassword, {200}, FALSE, "", "login2"),
              CreateAsserted(""),
              Tok("get_boards", "login2", "", "", "", {200}, "boards_list") >>
      [] name = "test_42_jwt_token_validation" ->
           RegisterAndLogin \o
           << Step("get_profile", "", "", "lit", MalformedToken, "", "", {401},
                   TRUE, "", "always", ""),
              Step("get_profile", "", "", "lit", EmptyToken, "", "", {401},
                   TRUE, "", "always", "") >>
      [] name = "test_43_cors_headers" ->
           << Step("options", "", "", "", "", "", "", {200, 204}, TRUE, "cors",
                   "always", "") >>
      [] OTHER -> \* test_44_content_type_validation
           RegisterAndLogin \o
           << Step("post_form", "", "", "login1", "", "", "", {201, 400, 415},
                   TRUE, "", "always", "") >>

Scenarios ==
    {"test_01_server_health", "test_02_user_registration_valid",
     "test_03_user_registration_duplicate_email",
     "test_04_user_registration_invalid_email",
     "test_05_user_registration_weak_password", "test_06_user_login_valid",
     "test_07_user_login_invalid_credentials",
     "test_08_user_login_wrong_password", "test_09_user_profile_access",
     "test_10_user_profile_no_token", "test_11_user_profile_invalid_token",
     "test_20_board_create_authenticated",
     "test_21_board_create_unauthenticated",
     "test_22_board_create_invalid_data", "test_23_board_list_authenticated",
     "test_24_board_list_unauthenticated", "test_25_board_get_specific",
     "test_26_board_get_nonexistent", "test_27_board_get_unauthenticated",
     "test_28_board_update_existing", "test_29_board_update_nonexistent",
     "test_30_board_update_unauthenticated", "test_31_board_delete_existing",
     "test_32_board_delete_nonexistent",
     "test_33_board_delete_unauthenticated",
     "test_40_board_access_other_user_board",
     "test_41_board_list_other_user_boards", "test_42_jwt_token_validation",
     "test_43_cors_headers", "test_44_content_type_validation"}

\* how many addresses the scenario generates
EmailsOf(name) ==
    LET used == { Scenario(name)[i].email : i \in 1..Len(Scenario(name)) }
    IN  IF "e2" \in used THEN 2 ELSE IF "e1" \in used THEN 1 ELSE 0

\* what the scenario appends to the accumulators when its assertions held
AppendsTo(name) ==
    CASE name \in {"test_02_user_registration_valid",
                   "test_03_user_registration_duplicate_email"} -> "test_users"
      [] name = "test_06_user_login_valid" -> "test_users_token"
      [] name = "test_20_board_create_authenticated" -> "test_boards"
      [] OTHER -> ""

\* the local variables of a scenario, before its first statement
NoLocals ==
    [e1 |-> None, e2 |-> None, login_result1 |-> None, login_result2 |-> None,
     create_result |-> None, board_id |-> None, from_response |-> None,
     resolved |-> FALSE, mismatch |-> FALSE, raised |-> "", test |-> "",
     made |-> {}]

\* nothing was sent yet
NoWire == [sent |-> << >>, raised |-> ""]

\* cleanup_test_data has not run
NoCleanup == [ran |-> FALSE, test_emails |-> None, board_ids |-> None,
              users_deleted |-> FALSE, boards_deleted |-> FALSE,
              failed |-> FALSE, raised |-> FALSE]

\* the class before setUpClass, with runs scenarios to be started
Unstarted(p, runs) ==
    /\ phase = p
    /\ mongo_client = None
    /\ db = None
    /\ connection = "none"
    /\ test_users = << >>
    /\ test_boards = << >>
    /\ clock = 0
    /\ budget = runs
    /\ outcome = [s \in {} |-> ""]
    /\ cur = ""
    /\ pc = 0
    /\ loc = NoLocals
    /\ wire = NoWire
    /\ cleanup = NoCleanup

\* no suite is running
NoSuite == Unstarted("off", 0)

Init ==
    /\ users = [e \in generate_test_email |-> {}]
    /\ boards = [id \in BoardIds |-> {}]
    /\ nextBoardId = 1
    /\ issued = [e \in generate_test_email |-> {}]
    /\ registered_201 = [e \in generate_test_email |-> << >>]
    /\ created_201 = [id \in BoardIds |-> {}]
    /\ deleted_200 = {}
    /\ last = [op |-> "none", args |-> NoArgs,
               result |-> Result(Response(0, TextBody))]
    /\ NoSuite

Next ==
    \/ register_user
    \/ login_user
    \/ get_profile
    \/ create_board
    \/ post_boards_empty_json
    \/ get_boards
    \/ get_board
    \/ update_board
    \/ delete_board
    \/ server_health

Spec == Init /\ [][Next]_vars

TypeOK ==
    /\ nextBoardId \in 1..(MaxBoards + 1)
    /\ \A e \in generate_test_email : Cardinality(users[e]) <= 1
    /\ \A id \in BoardIds : Cardinality(boards[id]) <= 1

\* text contains part
Contains(text, part) ==
    \E pre \in {"", "Email ", "User "}, post \in {"", "."} : text = pre \o part \o post

(***************************************************************************)
(* One run of the suite: the statements of a scenario                      *)
(***************************************************************************)
\* the 201 bodies that carry the contract's {message, board}
ConformingShapes == CreateShapes \ {"flat_id"}

\* what a conforming backend can answer
Conforming(req) ==
    { Serve(req, nd) : nd \in { c \in Choices(req) : c.shape \in ConformingShapes } }

\* a response outside the contract that leaves the stored data alone
InternalError == Unchanged(Response(500, ErrorBody("Internal server error")))

\* how a call can go: answered by the contract, answered with a response
\* outside it, or not answered (requests raises Timeout or ConnectionError)
Reliable == {"ok"}
Faulty == {"ok", "500", "Timeout", "ConnectionError"}

Raises(net) == IF net \in {"Timeout", "ConnectionError"} THEN net ELSE ""


\* mutant: a failed call is sent a second time
Send_retry(req, raised) ==
    LET r == [request |-> req, timeout |-> TIMEOUT]
    IN  [sent |-> IF raised = "" THEN <<r>> ELSE <<r, r>>, raised |-> raised]

\* requests.<method>(url, ..., timeout=TIMEOUT): what one call puts on the
\* wire, and the exception it lets through ("" when a response came back)
Send(req, raised) ==
    [sent |-> <<[request |-> req, timeout |-> TIMEOUT]>>, raised |-> raised]

\* the step the running scenario is at
Here == Scenario(cur)[pc]

EmailOf(st) ==
    CASE st.email = "e1" -> CHOOSE e \in loc.e1 : TRUE
      [] st.email = "e2" -> CHOOSE e \in loc.e2 : TRUE
      [] OTHER -> InvalidEmail

LoginResult(st) ==
    IF st.token = "login2" THEN loc.login_result2 ELSE loc.login_result1

\* board_id = create_result["board_id"] on a result without that key
BoardKeyError(st) ==
    st.board_id = "create_result" /\ \A r \in loc.create_result : "board_id" \notin r.keys

\* login_result["token"] on a result without that key
TokenKeyError(st) ==
    st.token \in {"login1", "login2"} /\ \A r \in LoginResult(st) : "token" \notin r.keys

\* the guard a call stands under
Cond(st) ==
    CASE st.cond = "board_id_none" -> loc.board_id = None
      [] st.cond = "token_in_login2" ->
           \E r \in loc.login_result2 : "token" \in r.keys
      [] OTHER -> TRUE

\* f"Bearer {token}": a token that is None is formatted as the text None
TokenOf(st) ==
    IF st.token = "lit" THEN st.text
    ELSE LET r == CHOOSE x \in LoginResult(st) : TRUE
         IN  IF r.token = None THEN "None" ELSE CHOOSE t \in r.token : TRUE

\* f"{self.base_url}/api/boards/{board_id}": an id that is None addresses no board
IdOrNone(ids) == IF ids = None THEN NoneBoardId ELSE CHOOSE i \in ids : TRUE

BoardIdOf(st) ==
    CASE st.board_id = "board_id" -> IdOrNone(loc.board_id)
      [] st.board_id = "create_result" ->
           IdOrNone((CHOOSE r \in loc.create_result : TRUE).board_id)
      [] st.board_id = "nonexistent" -> NonexistentBoardId
      [] OTHER -> SomeBoardId

DataOf(st) ==
    IF st.data = "updated" THEN UpdatedBoardData ELSE generate_test_board_data

RequestOf(st) ==
    CASE st.call = "health" -> server_health_request
      [] st.call = "options" -> options_request
      [] st.call = "post_form" -> post_form_request(TokenOf(st))
      [] st.call = "register_user" -> register_user_request(EmailOf(st), st.password)
      [] st.call = "login_user" -> login_user_request(EmailOf(st), st.password)
      [] st.call = "get_profile" -> get_profile_request(TokenOf(st))
      [] st.call = "create_board" ->
           create_board_request(TokenOf(st), {DataOf(st)})
      [] st.call = "post_boards_empty_json" ->
           post_boards_empty_json_request(TokenOf(st))
      [] st.call = "get_boards" -> get_boards_request(TokenOf(st))
      [] st.call = "get_board" -> get_board_request(TokenOf(st), BoardIdOf(st))
      [] st.call = "update_board" ->
           update_board_request(TokenOf(st), BoardIdOf(st), DataOf(st))
      [] OTHER -> delete_board_request(TokenOf(st), BoardIdOf(st))

ResultOf(st, resp) ==
    CASE st.call = "register_user" ->
           register_user_result(resp, EmailOf(st), st.password)
      [] st.call = "login_user" -> login_user_result(resp)
      [] st.call = "create_board" -> create_board_result(resp)
      [] OTHER -> Result(resp)

OpOf(st) == IF st.call = "health" THEN "server_health" ELSE st.call

ArgsOf(st) ==
    [email |-> IF st.email = "" THEN None ELSE {EmailOf(st)},
     password |-> IF st.password = "" THEN None ELSE {st.password},
     token |-> IF st.token = "" THEN None ELSE {TokenOf(st)},
     board_id |-> IF st.board_id = "" THEN None ELSE {BoardIdOf(st)},
     board_data |-> IF st.data = "" THEN None ELSE {DataOf(st)}]

\* self.assertEqual(result["status_code"], ...) / assertIn(status, [...])
StatusHolds(st, res) == st.asserted => res.status_code \in st.contract

\* the assertions a scenario makes on the body once the status held
BodyHolds(st, res, resp) ==
    LET body == res.response
    IN  CASE st.check = "status_ok" -> body.status = {"ok"}
          [] st.check = "created" -> body.message = {"User created successfully"}
          [] st.check = "already" ->
               \E text \in body.error : Contains(text, AlreadyRegistered)
          [] st.check = "error" -> body.error # None
          [] st.check = "token_user" -> "token" \in res.keys /\ body.user # None
          [] st.check = "email" -> body.id # None /\ body.email = loc.e1
          [] st.check = "message_board" -> body.message # None /\ body.board # None
          [] st.check = "boards_nonempty" ->
               IsDict(body) => \A l \in body.boards : Len(l) > 0
          [] st.check = "scale_fixture" ->
               IsDict(body) =>
                 \A b \in body.board : b.scale = {generate_test_board_data.scale}
          [] st.check = "scale_updated" ->
               IsDict(body) =>
                 \A b \in body.board :
                    /\ b.scale = {UpdatedBoardData.scale}
                    /\ \A pos \in b.position : pos.x = UpdatedBoardData.position.x
          [] st.check = "message" -> body.message # None
          [] st.check = "message_boardId" ->
               body.message # None /\ body.boardId # None
          [] st.check = "cors" -> CorsHeaders \subseteq resp.headers
          [] OTHER -> TRUE

\* test_25, test_28, test_31: the board id read off the create response
ResolveBoardId(res) ==
    IF IsDict(res.response) /\ res.response.board # None
      THEN (CHOOSE b \in res.response.board : TRUE)._id
      ELSE res.board_id

\* the fallback: boards[0].get("_id") of the caller's list, when there is one
FirstListed(res) ==
    IF IsDict(res.response) /\ res.response.boards # None
      THEN LET l == CHOOSE x \in res.response.boards : TRUE
           IN  IF Len(l) > 0 THEN l[1]._id ELSE loc.board_id
      ELSE loc.board_id

\* the scenario's variables after the call returned res
After(st, res, out) ==
    LET l == [loc EXCEPT !.mismatch = @ \/ res.status_code \notin st.contract,
                         !.made = @ \cup Created(out)]
    IN  CASE st.then = "login1" -> [l EXCEPT !.login_result1 = {res}]
          [] st.then = "login2" -> [l EXCEPT !.login_result2 = {res}]
          [] st.then = "create_result" -> [l EXCEPT !.create_result = {res}]
          [] st.then = "resolve" ->
               [l EXCEPT !.create_result = {res},
                         !.board_id = ResolveBoardId(res),
                         !.from_response = ResolveBoardId(res),
                         !.resolved = TRUE]
          [] st.then = "first_listed" -> [l EXCEPT !.board_id = FirstListed(res)]
          [] OTHER -> l

\* the result recorded for scenario s in results
OutcomeOf(results, s) == IF s \in DOMAIN results THEN results[s] ELSE "not_run"

\* the scenario ends with verdict v
Verdict(v, l) ==
    /\ outcome' = [s \in DOMAIN outcome \cup {cur} |->
                      IF s = cur THEN v ELSE outcome[s]]
    /\ cur' = ""
    /\ pc' = 0
    /\ loc' = l

\* the next statement of the running scenario; net says how its call goes
Statement(net) ==
    /\ phase = "tests"
    /\ cur # ""
    /\ pc <= Len(Scenario(cur))
    /\ UNCHANGED <<phase, mongo_client, db, connection, test_users, test_boards,
                   clock, budget, cleanup>>
    /\ LET st == Here
       IN  IF BoardKeyError(st) \/ (Cond(st) /\ TokenKeyError(st))
             THEN /\ Verdict("error", [loc EXCEPT !.raised = "KeyError"])
                  /\ UNCHANGED <<backendVars, wire>>
           ELSE IF ~Cond(st)
             THEN /\ pc' = pc + 1
                  /\ UNCHANGED <<backendVars, wire, outcome, cur, loc>>
           ELSE LET w == Send(RequestOf(st), Raises(net))
                IN  /\ wire' = w
                    /\ IF w.raised # ""
                         THEN /\ Verdict("error", [loc EXCEPT !.raised = w.raised])
                              /\ UNCHANGED backendVars
                         ELSE \E out \in (IF net = "500" THEN {InternalError}
                                          ELSE Conforming(RequestOf(st))) :
                                LET res == ResultOf(st, out.resp)
                                    l == After(st, res, out)
                                IN  /\ Exchange(OpOf(st), ArgsOf(st), out, res)
                                    /\ IF /\ StatusHolds(st, res)
                                          /\ BodyHolds(st, res, out.resp)
                                         THEN /\ pc' = pc + 1
                                              /\ loc' = l
                                              /\ UNCHANGED <<outcome, cur>>
                                         ELSE Verdict("fail", l)

\* a statement of a scenario against a conforming backend
scenario_call == \E net \in Reliable : Statement(net)

\* a statement of a scenario whose call can fail
scenario_call_faulty == \E net \in Faulty : Statement(net)

(***************************************************************************)
(* One run of the suite: setUpClass, the scenarios, tearDownClass          *)
(***************************************************************************)
\* scenarios run with an unreliable network
FaultRuns == 1

\* mutant: only a request that raised makes the health check fail
HealthCheckRaises_unreachable(w, resp) == w.raised # ""

\* setUpClass raises unless GET /health came back with 200
HealthCheckRaises(w, resp) == w.raised # "" \/ resp.status_code # 200

\* the answer of a server that is up and not healthy
Unhealthy == Unchanged(Response(503, ErrorBody("Service unavailable")))

\* the MongoDB connection succeeds or fails; the server is healthy, unhealthy
\* or unreachable.  When setUpClass raises, unittest runs no test of the
\* class and does not call tearDownClass.
setUpClass ==
    /\ phase = "setUpClass"
    /\ \E mongo_ok \in BOOLEAN, net \in {"ok", "503", "ConnectionError"} :
         LET w == Send(server_health_request, Raises(net))
             out == IF net = "503" THEN Unhealthy ELSE Health
         IN  /\ test_users' = << >>
             /\ test_boards' = << >>
             /\ mongo_client' = IF mongo_ok THEN {"MongoClient"} ELSE None
             /\ db' = IF mongo_ok THEN {"boardsar"} ELSE None
             /\ connection' = IF mongo_ok THEN "open" ELSE "none"
             /\ wire' = w
             /\ IF w.raised = ""
                  THEN Exchange("server_health", NoArgs, out, Result(out.resp))
                  ELSE UNCHANGED backendVars
             /\ phase' = IF HealthCheckRaises(w, out.resp) THEN "aborted" ELSE "tests"
    /\ UNCHANGED <<clock, budget, outcome, cur, pc, loc, cleanup>>

\* unittest calls a test method; its generate_test_email calls are made
start_scenario ==
    /\ phase = "tests"
    /\ cur = ""
    /\ budget > 0
    /\ \E s \in Scenarios :
         /\ s \notin DOMAIN outcome
         /\ cur' = s
         /\ loc' = [NoLocals EXCEPT
                      !.test = s,
                      !.e1 = IF EmailsOf(s) >= 1 THEN {test_email(clock + 1)} ELSE None,
                      !.e2 = IF EmailsOf(s) >= 2 THEN {test_email(clock + 2)} ELSE None]
         /\ clock' = clock + EmailsOf(s)
    /\ pc' = 1
    /\ budget' = budget - 1
    /\ wire' = NoWire
    /\ UNCHANGED <<backendVars, phase, mongo_client, db, connection, test_users,
                   test_boards, outcome, cleanup>>

\* the test method returns: every assertion held; its last statement is the
\* append to the accumulator, where it has one
end_scenario ==
    /\ phase = "tests"
    /\ cur # ""
    /\ pc > Len(Scenario(cur))
    /\ Verdict("pass", loc)
    /\ test_users' =
         IF AppendsTo(cur) \in {"test_users", "test_users_token"}
           THEN Append(test_users, [email |-> CHOOSE e \in loc.e1 : TRUE])
           ELSE test_users
    /\ test_boards' =
         IF AppendsTo(cur) = "test_boards"
           THEN Append(test_boards,
                       [board_id |-> (CHOOSE r \in loc.create_result : TRUE).board_id,
                        user_email |-> CHOOSE e \in loc.e1 : TRUE])
           ELSE test_boards
    /\ UNCHANGED <<backendVars, phase, mongo_client, db, connection, clock,
                   budget, wire, cleanup>>


\* mutant: the deletions are made outside the try block
cleanup_test_data_uncaught(fault) ==
    LET test_emails == { test_users[i].email : i \in 1..Len(test_users) }
        board_ids == UNION { test_boards[i].board_id : i \in 1..Len(test_boards) }
        users_raise == test_users # << >> /\ fault = "users"
        boards_raise == ~users_raise /\ board_ids # {} /\ fault = "boards"
    IN  IF mongo_client = None \/ db = None THEN NoCleanup
        ELSE [ran |-> TRUE,
              test_emails |-> test_emails,
              board_ids |-> IF users_raise THEN None ELSE board_ids,
              users_deleted |-> test_users # << >> /\ ~users_raise,
              boards_deleted |-> board_ids # {} /\ ~users_raise /\ ~boards_raise,
              failed |-> users_raise \/ boards_raise,
              raised |-> users_raise \/ boards_raise]

\* cleanup_test_data: skipped without a client or a database; else the
\* emails of test_users and the ids of test_boards that are not None are
\* passed to delete_many; fault names the delete_many that raises
cleanup_test_data(fault) ==
    LET test_emails == { test_users[i].email : i \in 1..Len(test_users) }
        board_ids == UNION { test_boards[i].board_id : i \in 1..Len(test_boards) }
        users_raise == test_users # << >> /\ fault = "users"
        boards_raise == ~users_raise /\ board_ids # {} /\ fault = "boards"
    IN  IF mongo_client = None \/ db = None THEN NoCleanup
        ELSE [ran |-> TRUE,
              test_emails |-> test_emails,
              board_ids |-> IF users_raise THEN None ELSE board_ids,
              users_deleted |-> test_users # << >> /\ ~users_raise,
              boards_deleted |-> board_ids # {} /\ ~users_raise /\ ~boards_raise,
              failed |-> users_raise \/ boards_raise,
              raised |-> FALSE]

\* tearDownClass: cleanup_test_data, then the client is closed if there is one
tearDownClass ==
    /\ phase = "tests"
    /\ cur = ""
    /\ \E fault \in {"", "users", "boards"} :
         LET c == cleanup_test_data(fault)
         IN  /\ cleanup' = c
             /\ users' = [e \in DOMAIN users |->
                            IF c.users_deleted /\ e \in c.test_emails
                              THEN {} ELSE users[e]]
             /\ boards' = [id \in DOMAIN boards |->
                             IF c.boards_deleted /\ id \in c.board_ids
                               THEN {} ELSE boards[id]]
             /\ phase' = IF c.raised THEN "tearDownClass raised" ELSE "done"
             /\ connection' = IF ~c.raised /\ mongo_client # None THEN "closed"
                              ELSE connection
    /\ UNCHANGED <<nextBoardId, issued, registered_201, created_201, deleted_200,
                   last, mongo_client, db, test_users, test_boards, clock,
                   budget, outcome, cur, pc, loc, wire>>

\* a fresh backend, and the class about to be set up
Fresh(runs) ==
    /\ users = [e \in SuiteEmails |-> {}]
    /\ boards = [id \in BoardIds |-> {}]
    /\ nextBoardId = 1
    /\ issued = [e \in SuiteEmails |-> {}]
    /\ registered_201 = [e \in SuiteEmails |-> << >>]
    /\ created_201 = [id \in BoardIds |-> {}]
    /\ deleted_200 = {}
    /\ last = [op |-> "none", args |-> NoArgs,
               result |-> Result(Response(0, TextBody))]
    /\ Unstarted("setUpClass", runs)

SuiteInit == Fresh(MaxRuns)

SuiteNext ==
    \/ setUpClass
    \/ start_scenario
    \/ scenario_call
    \/ end_scenario
    \/ tearDownClass

\* the suite against a conforming backend
SuiteSpec == SuiteInit /\ [][SuiteNext]_vars

FaultInit == Fresh(FaultRuns)

FaultNext ==
    \/ setUpClass
    \/ start_scenario
    \/ scenario_call_faulty
    \/ end_scenario
    \/ tearDownClass

\* the suite when calls can fail or be answered outside the contract
FaultSpec == FaultInit /\ [][FaultNext]_vars

(***************************************************************************)
(* Vocabulary of the properties                                            *)
(***************************************************************************)
ProtectedOps == {"get_profile", "create_board", "post_boards_empty_json",
                 "get_boards", "get_board", "update_board", "delete_board"}

\* the identity making the call recorded in l
Caller(l) == UNION { LoggedInAs(t) : t \in l.args.token }

\* the boards identity e created and has not deleted
LiveBoardsOf(e) == { id \in BoardIds : created_201[id] = {e} /\ id \notin deleted_200 }

\* the board ids a list response carries
ListedIds(body) == UNION { UNION { b[i]._id : i \in 1..Len(b) } : b \in body.boards }

(***************************************************************************)
(* C1                                                                      *)
(***************************************************************************)
\* C1 (as stated): for distinct identities A and B, in every state, get_board
\* by A on a board A created returns 200 with that board, get_board by B on
\* it returns 404, and the board is not in the list returned to B.
C1_AsStated ==
    \A id \in BoardIds : \A A \in created_201[id] :
        /\ (last.op = "get_board" /\ last.args.board_id = {id} /\ Caller(last) = {A})
              => /\ last.result.status_code = 200
                 /\ \E b \in last.result.response.board : b._id = {id}
        /\ (last.op = "get_board" /\ last.args.board_id = {id}
              /\ Caller(last) # {} /\ Caller(last) # {A})
              => last.result.status_code = 404
        /\ (last.op = "get_boards" /\ Caller(last) # {} /\ Caller(last) # {A})
              => id \notin ListedIds(last.result.response)

\* C1 (amended): the same, where A is answered 200 for a board A created
\* and has not deleted; B is answered 404 and never lists it in any case.
C1_Isolation ==
    \A id \in BoardIds : \A A \in created_201[id] :
        /\ (last.op = "get_board" /\ last.args.board_id = {id} /\ Caller(last) = {A}
              /\ id \notin deleted_200)
              => /\ last.result.status_code = 200
                 /\ \E b \in last.result.response.board : b._id = {id}
        /\ (last.op = "get_board" /\ last.args.board_id = {id}
              /\ Caller(last) # {} /\ Caller(last) # {A})
              => last.result.status_code = 404
        /\ (last.op = "get_boards" /\ Caller(last) # {} /\ Caller(last) # {A})
              => /\ last.result.status_code = 200
                 /\ id \notin ListedIds(last.result.response)

\* B has just been answered 404 for a live board of A
C1_Witness ==
    \E id \in BoardIds : \E A \in created_201[id] :
        /\ id \notin deleted_200
        /\ last.op = "get_board" /\ last.args.board_id = {id}
        /\ Caller(last) # {} /\ Caller(last) # {A}
        /\ last.result.status_code = 404

(***************************************************************************)
(* C2                                                                      *)
(***************************************************************************)
\* id is not a live board of identity e
AbsentFor(id, e) == id \notin LiveBoardsOf(e)

\* C2: an update_board or delete_board by a logged-in identity on a board id
\* that does not exist or belongs to another identity returns 404 and leaves
\* every stored board (scale, position, shapes, owner) and user as it was.
C2_ForeignWriteIs404 ==
    [][ (/\ last'.op \in {"update_board", "delete_board"}
         /\ Caller(last') # {}
         /\ \A id \in last'.args.board_id : \A e \in Caller(last') : AbsentFor(id, e))
        => (/\ last'.result.status_code = 404
            /\ boards' = boards
            /\ users' = users
            /\ deleted_200' = deleted_200) ]_vars

\* B's update of a live board of A was answered 404 and the board still
\* has the fixture's scale
C2_Witness ==
    \E id \in BoardIds : \E A \in created_201[id] :
        /\ id \notin deleted_200
        /\ last.op = "update_board" /\ last.args.board_id = {id}
        /\ last.args.board_data = {UpdatedBoardData}
        /\ Caller(last) # {} /\ Caller(last) # {A}
        /\ last.result.status_code = 404
        /\ \E b \in boards[id] : b.scale = generate_test_board_data.scale

(***************************************************************************)
(* C3                                                                      *)
(***************************************************************************)
\* C3: every protected operation called with the empty token or with a
\* syntactically invalid token returns 401 and leaves the stored users and
\* boards unchanged.
C3_InvalidTokenIs401 ==
    [][ (last'.op \in ProtectedOps /\ last'.args.token \subseteq InvalidTokens)
        => (/\ last'.result.status_code = 401
            /\ users' = users
            /\ boards' = boards) ]_vars

\* a delete with the empty token, addressed to a board that exists
C3_Witness ==
    /\ last.op = "delete_board"
    /\ last.args.token = {EmptyToken}
    /\ \E id \in last.args.board_id : id \in BoardIds /\ boards[id] # {}
    /\ last.result.status_code = 401

(***************************************************************************)
(* C4                                                                      *)
(***************************************************************************)
\* the register call recorded in l is for an email a register call already
\* returned 201 for
AlreadyRegisteredEmail(l) == \E e \in l.args.email \cap generate_test_email :
                                 registered_201[e] # << >>

\* the first registration of a well-formed email with an acceptable password
\* returns 201, and no email is answered 201 twice
FirstRegistrationIs201 ==
    /\ \A e \in generate_test_email : Len(registered_201'[e]) <= 1
    /\ (/\ last'.op = "register_user"
        /\ ~AlreadyRegisteredEmail(last')
        /\ last'.args.email \subseteq generate_test_email
        /\ last'.args.password = {DefaultPassword})
       => last'.result.status_code = 201

Is409AlreadyRegistered(res) ==
    /\ res.status_code = 409
    /\ \E text \in res.response.error : Contains(text, AlreadyRegistered)

\* C4 (as stated): registering an email yields 201 the first time and never
\* 201 twice, and every register call for an email that was already
\* registered returns 409 with an error containing "already registered".
C4_AsStated ==
    [][ /\ FirstRegistrationIs201
        /\ (last'.op = "register_user" /\ AlreadyRegisteredEmail(last'))
           => Is409AlreadyRegistered(last'.result) ]_vars

\* C4 (amended): the same, where the 409 is owed to register calls that
\* repeat an already registered email with a password the backend accepts.
C4_DuplicateIs409 ==
    [][ /\ FirstRegistrationIs201
        /\ (/\ last'.op = "register_user" /\ AlreadyRegisteredEmail(last')
            /\ \A p \in last'.args.password : AcceptablePassword(p))
           => Is409AlreadyRegistered(last'.result) ]_vars

\* the second registration of an email was answered 409
C4_Witness ==
    /\ last.op = "register_user"
    /\ \E e \in last.args.email \cap generate_test_email : Len(registered_201[e]) = 1
    /\ last.args.password = {DefaultPassword}
    /\ Is409AlreadyRegistered(last.result)

(***************************************************************************)
(* C5                                                                      *)
(***************************************************************************)
\* C5: the owner's delete_board on a board the owner created and has not
\* deleted returns 200; from then on every get_board, update_board and
\* delete_board on that id by the owner returns 404 and the owner's list
\* does not contain it.
C5_DeleteThen404 ==
    [][ \A id \in BoardIds : \A owner \in created_201[id] :
          Caller(last') = {owner} =>
            /\ (last'.op = "delete_board" /\ last'.args.board_id = {id}
                  /\ id \notin deleted_200)
               => (last'.result.status_code = 200 /\ id \in deleted_200')
            /\ (last'.op \in {"get_board", "update_board", "delete_board"}
                  /\ last'.args.board_id = {id} /\ id \in deleted_200)
               => last'.result.status_code = 404
            /\ (last'.op = "get_boards" /\ id \in deleted_200)
               => (/\ last'.result.status_code = 200
                   /\ id \notin ListedIds(last'.result.response)) ]_vars

\* the owner's second delete of a board was answered 404
C5_Witness ==
    \E id \in deleted_200 :
        /\ last.op = "delete_board" /\ last.args.board_id = {id}
        /\ Caller(last) # {} /\ Caller(last) = created_201[id]
        /\ last.result.status_code = 404

(***************************************************************************)
(* C6                                                                      *)
(***************************************************************************)
\* C6: when update_board by the owner returned 200 and the next call is
\* get_board by the owner on the same id, that call returns 200 with a board
\* whose scale and position are the values sent in the update.
C6_UpdateRoundTrip ==
    [][ (/\ last.op = "update_board" /\ last.result.status_code = 200
         /\ last'.op = "get_board"
         /\ last'.args.token = last.args.token
         /\ last'.args.board_id = last.args.board_id)
        => (/\ last'.result.status_code = 200
            /\ \E b \in last'.result.response.board :
               \E sent \in last.args.board_data :
                  /\ b.scale = {sent.scale}
                  /\ b.position = {sent.position}) ]_vars

\* a get_board returned scale 2.0 and position {50, 50}: the values of the
\* update of test_28, on a board created from the fixture
C6_Witness ==
    /\ last.op = "get_board"
    /\ last.result.status_code = 200
    /\ \E b \in last.result.response.board :
          /\ b.scale = {2}
          /\ b.position = {[x |-> 50, y |-> 50]}

(***************************************************************************)
(* C7                                                                      *)
(***************************************************************************)
\* the login recorded in l names a registered email and the password its
\* registration was accepted with
ValidCredentials(l) ==
    \E e \in l.args.email : /\ registered_201[e] # << >>
                            /\ l.args.password = {registered_201[e][1]}

\* C7: login returns 200 with a token exactly when the email was registered
\* with 201 and the password is the one it was registered with, and 401
\* without a token otherwise; get_profile with a token a login returned
\* answers 200 with the email of the identity that logged in.
C7_LoginAndProfile ==
    /\ last.op = "login_user" =>
         IF ValidCredentials(last)
           THEN /\ last.result.status_code = 200
                /\ "token" \in last.result.keys
                /\ last.result.token # None
                /\ last.result.token \cap InvalidTokens = {}
           ELSE /\ last.result.status_code = 401
                /\ last.result.token = None
    /\ (last.op = "get_profile" /\ Caller(last) # {}) =>
         /\ last.result.status_code = 200
         /\ last.result.response.email = Caller(last)

\* get_profile with the token of a login was answered with that identity
C7_Witness ==
    /\ last.op = "get_profile"
    /\ Caller(last) # {}
    /\ last.result.status_code = 200
    /\ last.result.response.email = Caller(last)
    /\ \E e \in generate_test_email : e \notin Caller(last) /\ issued[e] # {}

(***************************************************************************)
(* C8                                                                      *)
(***************************************************************************)
\* C8: list_boards with the token of a login returns 200 with a boards
\* sequence holding exactly the boards the caller created and has not
\* deleted, each once; it is not empty right after the caller's create_board
\* returned 201.
C8_ListIsOwnBoards ==
    [][ (last'.op = "get_boards" /\ Caller(last') # {})
        => (/\ last'.result.status_code = 200
            /\ last'.result.response.boards # None
            /\ \A e \in Caller(last') :
                 ListedIds(last'.result.response) = LiveBoardsOf(e)'
            /\ \A b \in last'.result.response.boards :
                 Len(b) = Cardinality(ListedIds(last'.result.response))
            /\ (/\ last.op = "create_board" /\ last.result.status_code = 201
                /\ last.args.token = last'.args.token)
               => \A b \in last'.result.response.boards : Len(b) > 0) ]_vars

\* a caller with a live board of its own was listed exactly that board
\* while the other identity has a live board too
C8_Witness ==
    /\ last.op = "get_boards"
    /\ last.result.status_code = 200
    /\ \E e \in Caller(last) :
         /\ LiveBoardsOf(e) # {}
         /\ ListedIds(last.result.response) = LiveBoardsOf(e)
         /\ \E o \in generate_test_email : o # e /\ LiveBoardsOf(o) # {}

(***************************************************************************)
(* C9                                                                      *)
(***************************************************************************)
\* the id of the board the step has created
JustCreated == { id \in BoardIds : created_201[id] = {} /\ created_201'[id] # {} }

\* the 201 body carries an _id, in its board object or of its own
CarriesId(body) == body._id # None \/ \E b \in body.board : b._id # None

\* C9 (as stated): whenever create_board returns 201, its result carries a
\* non-null board_id, and that id is the id of the board just created.
C9_AsStated ==
    [][ (last'.op = "create_board" /\ last'.result.status_code = 201)
        => (/\ "board_id" \in last'.result.keys
            /\ last'.result.board_id # None
            /\ last'.result.board_id = JustCreated) ]_vars

\* C9 (amended): whenever create_board returns 201 with a JSON object, its
\* result has a board_id; when the body carries an _id (in the nested board
\* object or flat) board_id is non-null and is the id of the board just
\* created, and when the body carries no _id board_id is None.
C9_BoardIdOfCreated ==
    [][ (last'.op = "create_board" /\ last'.result.status_code = 201
           /\ IsDict(last'.result.response))
        => (/\ "board_id" \in last'.result.keys
            /\ CarriesId(last'.result.response)
                 => (/\ last'.result.board_id # None
                     /\ last'.result.board_id = JustCreated)
            /\ ~CarriesId(last'.result.response)
                 => last'.result.board_id = None) ]_vars

\* a 201 whose board object carries the id of the second board created
C9_Witness ==
    /\ last.op = "create_board"
    /\ last.result.status_code = 201
    /\ \E b \in last.result.response.board : b._id = {2}
    /\ last.result.board_id = {2}
    /\ boards[2] # {}

(***************************************************************************)
(* C10                                                                     *)
(***************************************************************************)
\* C10: a board creation that omits the board field or carries no valid
\* token is rejected (400 or 401), and a rejected creation creates no
\* board: every identity has the same boards before and after it.
C10_RejectedCreatesNothing ==
    [][ /\ last'.op = "post_boards_empty_json"
           => last'.result.status_code \in {400, 401}
        /\ (last'.op = "create_board" /\ last'.args.token \subseteq InvalidTokens)
           => last'.result.status_code = 401
        /\ (/\ last'.op \in {"create_board", "post_boards_empty_json"}
            /\ last'.result.status_code \in {400, 401})
           => (/\ boards' = boards
               /\ \A e \in generate_test_email : OwnedBy(e)' = OwnedBy(e)
               /\ created_201' = created_201) ]_vars

\* a logged-in identity that has a board was answered 400 for a creation
\* without the board field
C10_Witness ==
    /\ last.op = "post_boards_empty_json"
    /\ last.result.status_code = 400
    /\ \E e \in Caller(last) : OwnedBy(e) # {}


(***************************************************************************)
(* C11                                                                     *)
(***************************************************************************)
\* the tokens the running scenario may use: literals and its own logins
OwnTokens ==
    {EmptyToken, "invalid-token", MalformedToken, "None"} \cup
    UNION { r.token : r \in loc.login_result1 \cup loc.login_result2 }

\* the board ids the running scenario may use: literals and boards it made
OwnBoardIds == {NonexistentBoardId, SomeBoardId, NoneBoardId} \cup loc.made

IsPrefix(a, b) == Len(a) <= Len(b) /\ \A i \in 1..Len(a) : a[i] = b[i]

\* C11: against a conforming backend, in whatever order the scenarios are
\* run, every scenario that ended has passed; the addresses a scenario
\* generates were never registered before it started; every call a scenario
\* makes uses an address it generated, a token of its own logins and a board
\* it created itself (or a literal); and while scenarios run the
\* accumulators test_users and test_boards only grow.
C11_OrderIndependent ==
    [][ /\ \A s \in Scenarios : OutcomeOf(outcome', s) \in {"not_run", "pass"}
        /\ (cur = "" /\ cur' # "") =>
              \A e \in loc'.e1 \cup loc'.e2 : users[e] = {} /\ issued[e] = {}
        /\ (cur # "" /\ last' # last) =>
              /\ last'.args.email \subseteq loc.e1 \cup loc.e2 \cup {InvalidEmail}
              /\ last'.args.token \subseteq OwnTokens
              /\ last'.args.board_id \subseteq OwnBoardIds
        /\ phase' = "tests" =>
              /\ IsPrefix(test_users, test_users')
              /\ IsPrefix(test_boards, test_boards')
      ]_vars

\* two scenarios passed in the reverse of their numeric order, the later
\* one having read a board back by the id of its own create call
C11_Witness ==
    /\ OutcomeOf(outcome, "test_25_board_get_specific") = "pass"
    /\ OutcomeOf(outcome, "test_02_user_registration_valid") = "pass"
    /\ Len(test_users) = 1
    /\ test_users[1].email = test_email(2)
    /\ cur = ""

(***************************************************************************)
(* C12                                                                     *)
(***************************************************************************)
\* the identities some scenario registered with a 201
RegisteredInRun == { e \in DOMAIN registered_201 : registered_201[e] # << >> }

\* the boards some scenario created with a 201
CreatedInRun == { id \in BoardIds : created_201[id] # {} }

\* C12 (as stated): when tearDownClass has finished with the persistence
\* layer available and no deletion raising, the emails passed to the user
\* deletion contain every identity a scenario registered and the ids passed
\* to the board deletion contain every board a scenario created.
C12_AsStated ==
    (phase = "done" /\ cleanup.ran /\ ~cleanup.failed) =>
        /\ RegisteredInRun \subseteq cleanup.test_emails
        /\ CreatedInRun \subseteq cleanup.board_ids

(***************************************************************************)
(* C13                                                                     *)
(***************************************************************************)
\* C13: a MongoDB failure never makes setUpClass raise (only the health
\* check does); tearDownClass never raises; without a client it skips the
\* cleanup and deletes nothing, with a client the cleanup runs and a
\* delete_many that raises is caught.
C13_CleanupDegrades ==
    [][ /\ phase' # "tearDownClass raised"
        /\ (phase = "setUpClass" /\ phase' = "aborted") =>
              (wire'.raised # "" \/ last'.result.status_code # 200)
        /\ (phase = "tests" /\ phase' = "done") =>
              IF mongo_client = None
                THEN cleanup' = NoCleanup /\ users' = users /\ boards' = boards
                ELSE cleanup'.ran
      ]_vars

\* the MongoDB connection failed in setUpClass, scenarios ran and passed,
\* and tearDownClass finished without running the cleanup
C13_Witness ==
    /\ phase = "done"
    /\ mongo_client = None
    /\ ~cleanup.ran
    /\ OutcomeOf(outcome, "test_06_user_login_valid") = "pass"
    /\ OutcomeOf(outcome, "test_20_board_create_authenticated") = "pass"

(***************************************************************************)
(* C14                                                                     *)
(***************************************************************************)
\* C14 (as stated): a scenario in which some call, a precondition call
\* included, was answered with a status other than the one the contract
\* gives for it, does not pass.
C14_AsStated ==
    (cur = "" /\ loc.test # "" /\ loc.mismatch) =>
        OutcomeOf(outcome, loc.test) \in {"fail", "error"}

(***************************************************************************)
(* C15                                                                     *)
(***************************************************************************)
\* C15: setUpClass lets the scenarios start only when GET /health came back
\* with 200; otherwise it raises, and from then on nothing happens: no
\* scenario has run or runs, and the health request is the only request sent.
C15_SetupFatal ==
    [][ /\ (phase = "setUpClass" /\ phase' = "tests") =>
              (wire'.raised = "" /\ last'.result.status_code = 200)
        /\ phase' = "aborted" =>
              /\ \A s \in Scenarios : OutcomeOf(outcome', s) = "not_run"
              /\ cur' = ""
              /\ Len(wire'.sent) = 1
              /\ wire'.sent[1].request = server_health_request
        /\ phase = "aborted" => vars' = vars
      ]_vars

\* the server answered the health check with a status that is not 200
C15_Witness ==
    /\ phase = "aborted"
    /\ last.op = "server_health"
    /\ last.result.status_code = 503

(***************************************************************************)
(* C16                                                                     *)
(***************************************************************************)
\* C16: every call of a scenario puts exactly one request on the wire, with
\* the timeout TIMEOUT; when the request raises a timeout or a connection
\* failure, the scenario ends at once with an error and the backend is as
\* it was.
C16_OneCallNoRetry ==
    [][ (cur # "" /\ wire' # wire) =>
          /\ Len(wire'.sent) = 1
          /\ wire'.sent[1].timeout = TIMEOUT
          /\ wire'.raised # "" =>
               /\ cur' = ""
               /\ OutcomeOf(outcome', cur) = "error"
               /\ loc'.raised = wire'.raised
               /\ UNCHANGED backendVars
      ]_vars

\* get_board of test_26 timed out and the scenario ended with an error
C16_Witness ==
    /\ OutcomeOf(outcome, "test_26_board_get_nonexistent") = "error"
    /\ wire.raised = "Timeout"
    /\ Len(wire.sent) = 1
    /\ wire.sent[1].request.path = "/api/boards/{id}"
    /\ loc.raised = "Timeout"

(***************************************************************************)
(* C17                                                                     *)
(***************************************************************************)
\* C17 (as stated): when the run of the suite is over, by tearDownClass or by
\* setUpClass raising, a MongoDB connection that was established is closed.
C17_AsStated ==
    (phase \in {"done", "aborted"} /\ mongo_client # None) => connection = "closed"

(***************************************************************************)
(* C18                                                                     *)
(***************************************************************************)
\* C18 (as stated): the board id test_25, test_28 and test_31 read off the
\* create response, before their fallback, is the board_id of the adapter.
C18_AsStated ==
    loc.resolved =>
        \A r \in loc.create_result : loc.from_response = r.board_id

====
